---- MODULE Spec2Model ----
(***************************************************************************)
(* File-system backed message history store of the MSTeams extension:      *)
(* extensions/msteams/src/message-history-store-fs.ts.                     *)
(*                                                                         *)
(* One JSON file per conversation.  append() runs load / dedupe / push /   *)
(* repair / prune / persist under a per-file lock; read() pages through    *)
(* the stored list newest-first; readDefault() reads the most recently     *)
(* modified history file.                                                  *)
(*                                                                         *)
(* Time is in milliseconds after the epoch, as Date.now(), Date.parse(),   *)
(* ttlMs and stat.mtimeMs count it; the model's clock runs through the     *)
(* first few milliseconds.                                                 *)
(***************************************************************************)
EXTENDS Integers, Sequences, FiniteSets, TLC

VARIABLES
    files,        \* file name -> content of the file on disk
    mtime,        \* file name -> last-modified time of the file
    lock,         \* file name -> holder of the file lock (None when free)
    now,          \* the wall clock, Date.now()
    ttlMs,        \* params.ttlMs of the store instance
    maxMessages,  \* params.maxMessages of the store instance
    pc,           \* caller -> position of its append call
    pconv,        \* caller -> conversationId argument of its append call
    pmsg,         \* caller -> message argument of its append call
    pstore,       \* caller -> the store record its append call loaded
    arrivals,     \* conversation -> messages whose append body has run, in order
    res,          \* the last read / readDefault call and what it returned
    trav          \* a cursor traversal: limit, filters, pages so far, next cursor

vars == <<files, mtime, lock, now, ttlMs, maxMessages, pc, pconv, pmsg, pstore,
          arrivals, res, trav>>

-----------------------------------------------------------------------------
(* Bounds of the model *)

MaxNow == 4      \* the clock runs from 1 to MaxNow
MaxCalls == 3    \* append calls made in one behaviour

-----------------------------------------------------------------------------
(* Optional values (undefined | value) *)

None == <<>>
Some(x) == <<x>>
IsSome(o) == Len(o) = 1
Get(o) == o[1]

Min(a, b) == IF a < b THEN a ELSE b
Max(a, b) == IF a > b THEN a ELSE b

-----------------------------------------------------------------------------
(* Strings.  createdDateTime values and the before/after bounds are JS      *)
(* strings; the code compares them with < and > (UTF-16 code unit order),   *)
(* sorts them with localeCompare (collation order) and parses them with     *)
(* Date.parse.  Each is given on the strings the model uses.                *)

T1 == "1970-01-01T00:00:00.001Z"
T2 == "1970-01-01T00:00:00.002Z"
T3 == "1970-01-01T00:00:00.003Z"
T4 == "1970-01-01T00:00:00.004Z"
BadTime == "invalid"

\* the strings in ascending code unit order ("" < digits < lower case letters)
CodeUnitOrder == <<"", T1, T2, T3, T4, BadTime>>

\* the strings in ascending collation order of localeCompare (digits before letters)
CollationOrder == <<"", T1, T2, T3, T4, BadTime>>

IndexIn(order, s) == CHOOSE i \in 1..Len(order) : order[i] = s

\* a < b on strings
StrLt(a, b) == IndexIn(CodeUnitOrder, a) < IndexIn(CodeUnitOrder, b)

\* a > b on strings
StrGt(a, b) == StrLt(b, a)

\* a.localeCompare(b): negative, zero or positive
localeCompare(a, b) ==
    LET i == IndexIn(CollationOrder, a)
        j == IndexIn(CollationOrder, b)
    IN  IF i < j THEN -1 ELSE IF i > j THEN 1 ELSE 0

\* a JS number that may be NaN
NaN == [nan |-> TRUE, v |-> 0]
Num(n) == [nan |-> FALSE, v |-> n]
NumberIsFinite(x) == ~x.nan

\* Date.parse(s): milliseconds after the epoch; NaN when s is no date
DateParse(s) ==
    IF s = T1 THEN Num(1)
    ELSE IF s = T2 THEN Num(2)
    ELSE IF s = T3 THEN Num(3)
    ELSE IF s = T4 THEN Num(4)
    ELSE NaN

\* truthiness of a string: "" is falsy
Truthy(s) == s # ""

-----------------------------------------------------------------------------
(* Sequences *)

RECURSIVE Reverse(_)
\* Array.prototype.toReversed
Reverse(s) == IF s = <<>> THEN <<>> ELSE Reverse(Tail(s)) \o <<Head(s)>>

\* Array.prototype.slice(from, to) with 0 <= from, on 0-based positions
Slice(s, from, to) ==
    LET lo == Min(from, Len(s))
        hi == Min(Max(to, lo), Len(s))
    IN  SubSeq(s, lo + 1, hi)

\* insert m behind every element that does not sort after it (keeps the sort stable)
RECURSIVE InsertSorted(_, _)
InsertSorted(sorted, m) ==
    IF sorted = <<>> THEN <<m>>
    ELSE IF localeCompare(Head(sorted).createdDateTime, m.createdDateTime) <= 0
         THEN <<Head(sorted)>> \o InsertSorted(Tail(sorted), m)
         ELSE <<m>> \o sorted

RECURSIVE SortFrom(_, _)
SortFrom(sorted, rest) ==
    IF rest = <<>> THEN sorted
    ELSE SortFrom(InsertSorted(sorted, Head(rest)), Tail(rest))

\* messages.sort((a, b) => a.createdDateTime.localeCompare(b.createdDateTime)):
\* Array.prototype.sort is stable
SortMessages(messages) == SortFrom(<<>>, messages)

\* ascending by createdDateTime, as strings
Ascending(list) ==
    \A i \in 1..Len(list) - 1 :
        ~StrLt(list[i + 1].createdDateTime, list[i].createdDateTime)

-----------------------------------------------------------------------------
(* Conversations, file names and file contents *)

Conv1 == "conv1"
Conv2 == "conv2"

\* crypto.createHash("sha256").update(id).digest("hex").slice(0, 16);
\* update() throws a TypeError when id is no string (undefined)
hashConversationId(id) ==
    IF ~IsSome(id) THEN [threw |-> TRUE, hash |-> ""]
    ELSE [threw |-> FALSE,
          hash |-> IF Get(id) = Conv1 THEN "4ae47b2b94176a5d"
                   ELSE IF Get(id) = Conv2 THEN "0de71918a31335ca"
                   ELSE "e3b0c44298fc1c14"]

\* the file of a conversation: msteams-history-{hash}.json in the store directory
resolveFilePath(conversationId) ==
    LET h == hashConversationId(conversationId)
    IN  IF h.threw THEN [threw |-> TRUE, path |-> ""]
        ELSE [threw |-> FALSE, path |-> "msteams-history-" \o h.hash \o ".json"]

\* the file of a conversation id that is a string
FileOf(c) == resolveFilePath(Some(c)).path

FileNames == {FileOf(Conv1), FileOf(Conv2), FileOf("")}

\* A stored message.  null stands for a JSON null in the messages array.
Msg(id, t) == [id |-> id, createdDateTime |-> t]
null == [isNull |-> TRUE]

\* The content of a file: no file, bytes that are no JSON, or a JSON value with
\* the fields the code reads: version, conversationId (None when missing),
\* messages (isArray tells whether it is an array).
NoFile == [kind |-> "absent"]
Unparsable == [kind |-> "unparsable"]
Json(value) == [kind |-> "json", value |-> value]

StoreValue(version, conversationId, isArray, messages) ==
    [version |-> version, conversationId |-> conversationId,
     isArray |-> isArray, messages |-> messages]

\* { version: 1, conversationId, messages: [] }
emptyStore(conversationId) == StoreValue(1, Some(conversationId), TRUE, <<>>)

\* readJsonFile(filePath, fallback).value: the parsed file, or the fallback when
\* the file is missing or does not parse
readJsonFile(filePath, fallback) ==
    IF files[filePath].kind = "json" THEN files[filePath].value ELSE fallback

\* a load that takes whatever JSON value the file holds
readStoreTrusting(filePath, conversationId) ==
    readJsonFile(filePath, emptyStore(conversationId))

readStore(filePath, conversationId) ==
    LET value == readJsonFile(filePath, emptyStore(conversationId))
    IN  IF value.version # 1 \/ ~value.isArray
        THEN emptyStore(conversationId)
        ELSE value

HasNull(messages) == \E i \in 1..Len(messages) : messages[i] = null

\* keeps a message when its time parses and is after the cutoff
IsFresh(m, cutoff) ==
    LET ts == DateParse(m.createdDateTime)
    IN  NumberIsFinite(ts) /\ ts.v > cutoff

\* the age filter alone, without the capacity cap
pruneNoCap(messages) ==
    LET cutoff == now - ttlMs
    IN  SelectSeq(messages, LAMBDA m : IsFresh(m, cutoff))

\* the capacity cap taken from the front of the list
pruneKeepFirst(messages) ==
    LET fresh == pruneNoCap(messages)
    IN  IF Len(fresh) > maxMessages THEN Slice(fresh, 0, maxMessages) ELSE fresh

\* the capacity cap applied before the age filter
pruneCapFirst(messages) ==
    LET cutoff == now - ttlMs
        capped == IF Len(messages) > maxMessages
                  THEN Slice(messages, Len(messages) - maxMessages, Len(messages))
                  ELSE messages
    IN  SelectSeq(capped, LAMBDA m : IsFresh(m, cutoff))

prune(messages) ==
    LET cutoff == now - ttlMs
        fresh == SelectSeq(messages, LAMBDA m : IsFresh(m, cutoff))
    IN  IF Len(fresh) > maxMessages
        THEN Slice(fresh, Len(fresh) - maxMessages, Len(fresh))
        ELSE fresh

\* a dedupe that never finds the id
DedupNever(store, message) ==
    IF HasNull(store.messages) /\ Truthy(message.id) THEN "throws" ELSE "absent"

\* a dedupe that compares whole messages instead of ids
DedupByValue(store, message) ==
    IF ~Truthy(message.id) THEN "absent"
    ELSE IF HasNull(store.messages) THEN "throws"
    ELSE IF \E i \in 1..Len(store.messages) : store.messages[i] = message
         THEN "present"
    ELSE "absent"

\* message.id && store.messages.some((m) => m.id === message.id): some() stops at
\* the first match, and reading m.id of a null element before it throws
DedupCheck(store, message) ==
    LET hits == {i \in 1..Len(store.messages) :
                    /\ store.messages[i] # null
                    /\ store.messages[i].id = message.id}
        nulls == {i \in 1..Len(store.messages) : store.messages[i] = null}
        before(i, S) == \A j \in S : i < j
    IN  IF ~Truthy(message.id) THEN "absent"
        ELSE IF \E i \in hits : before(i, nulls) THEN "present"
        ELSE IF nulls # {} THEN "throws"
        ELSE "absent"

\* the push without the repair of the order
PushOnly(messages, message) == Append(messages, message)

\* the repair with its comparison turned around: a sort when the new message sorts
\* after the one that was last
PushAndRepairInverted(messages, message) ==
    LET pushed == Append(messages, message)
        last == IF Len(pushed) >= 2 THEN Some(pushed[Len(pushed) - 1]) ELSE None
    IN  IF /\ IsSome(last)
           /\ Get(last) # null
           /\ StrGt(message.createdDateTime, Get(last).createdDateTime)
        THEN SortMessages(pushed)
        ELSE pushed

\* store.messages.push(message), then the repair of the order: a full sort when
\* the new message sorts before the one that was last
PushAndRepair(messages, message) ==
    LET pushed == Append(messages, message)
        last == IF Len(pushed) >= 2 THEN Some(pushed[Len(pushed) - 1]) ELSE None
    IN  IF /\ IsSome(last)
           /\ Get(last) # null
           /\ StrLt(message.createdDateTime, Get(last).createdDateTime)
        THEN SortMessages(pushed)
        ELSE pushed

\* the callback append() runs under the file lock, up to the write: "deduped"
\* (return without modification), "throws" (a null element makes some(), the sort
\* comparator or the prune filter throw), or "write" with the record to persist
AppendBody(store, message) ==
    LET dup == DedupCheck(store, message)
    IN  IF dup = "present" THEN [outcome |-> "deduped", store |-> store]
        ELSE IF dup = "throws" \/ HasNull(store.messages)
             THEN [outcome |-> "throws", store |-> store]
        ELSE [outcome |-> "write",
              store |-> [store EXCEPT
                  !.messages = prune(PushAndRepair(store.messages, message))]]

-----------------------------------------------------------------------------
(* Cursors are strings, modelled as sequences of characters *)

DEFAULT_LIMIT == 20
MAX_LIMIT == 50

Digits == <<"0", "1", "2", "3", "4", "5", "6", "7", "8", "9">>

IsDigit(ch) == \E d \in 1..10 : Digits[d] = ch
DigitValue(ch) == (CHOOSE d \in 1..10 : Digits[d] = ch) - 1

RECURSIVE String(_)
\* String(n) of an integer n >= 0: its decimal digits
String(n) ==
    IF n < 10 THEN <<Digits[n + 1]>>
    ELSE String(n \div 10) \o <<Digits[(n % 10) + 1]>>

RECURSIVE SkipSpaces(_)
SkipSpaces(str) ==
    IF str # <<>> /\ Head(str) = " " THEN SkipSpaces(Tail(str)) ELSE str

RECURSIVE DigitPrefix(_)
\* the longest prefix of digits
DigitPrefix(str) ==
    IF str # <<>> /\ IsDigit(Head(str))
    THEN <<Head(str)>> \o DigitPrefix(Tail(str))
    ELSE <<>>

RECURSIVE DigitsValue(_, _)
DigitsValue(acc, str) ==
    IF str = <<>> THEN acc
    ELSE DigitsValue(acc * 10 + DigitValue(Head(str)), Tail(str))

\* Number.parseInt(str, 10): leading blanks, a sign, then digits up to the first
\* character that is none; NaN without a digit
parseInt(str) ==
    LET s1 == SkipSpaces(str)
        neg == s1 # <<>> /\ Head(s1) = "-"
        s2 == IF s1 # <<>> /\ Head(s1) \in {"+", "-"} THEN Tail(s1) ELSE s1
        ds == DigitPrefix(s2)
    IN  IF ds = <<>> THEN NaN
        ELSE Num(IF neg THEN 0 - DigitsValue(0, ds) ELSE DigitsValue(0, ds))

\* a cursor that is read one position too far
parseCursorOffByOne(cursor) ==
    IF ~IsSome(cursor) \/ Get(cursor) = <<>> THEN 0
    ELSE parseInt(Get(cursor)).v + 1

parseCursor(cursor) ==
    IF ~IsSome(cursor) \/ Get(cursor) = <<>> THEN 0
    ELSE LET n == parseInt(Get(cursor))
         IN  IF NumberIsFinite(n) /\ n.v >= 0 THEN n.v ELSE 0

-----------------------------------------------------------------------------
(* read and readDefault *)

\* ReadOpts: limit, cursor, before, after, each optional
Opts(limit, cursor, before, after) ==
    [limit |-> limit, cursor |-> cursor, before |-> before, after |-> after]

NoOpts == Opts(None, None, None, None)

\* an option that is given and truthy
Given(o) == IsSome(o) /\ Truthy(Get(o))

Threw == [threw |-> TRUE, messages |-> <<>>, nextCursor |-> None]
Result(messages, nextCursor) ==
    [threw |-> FALSE, messages |-> messages, nextCursor |-> nextCursor]

\* { messages: [] }
EmptyResult == Result(<<>>, None)

\* filters with inclusive bounds
FilterInclusive(messages, opts) ==
    LET f1 == IF Given(opts.after)
              THEN SelectSeq(messages,
                       LAMBDA m : ~StrLt(m.createdDateTime, Get(opts.after)))
              ELSE messages
    IN  IF Given(opts.before)
        THEN SelectSeq(f1, LAMBDA m : ~StrGt(m.createdDateTime, Get(opts.before)))
        ELSE f1

\* the filters of read: after and before are exclusive bounds on createdDateTime
Filter(messages, opts) ==
    LET f1 == IF Given(opts.after)
              THEN SelectSeq(messages,
                       LAMBDA m : StrGt(m.createdDateTime, Get(opts.after)))
              ELSE messages
    IN  IF Given(opts.before)
        THEN SelectSeq(f1, LAMBDA m : StrLt(m.createdDateTime, Get(opts.before)))
        ELSE f1

\* a limit without the upper end of the clamp
ClampLimitNoMax(opts) ==
    Max(1, IF IsSome(opts.limit) THEN Get(opts.limit) ELSE DEFAULT_LIMIT)

\* Math.min(Math.max(1, opts?.limit ?? DEFAULT_LIMIT), MAX_LIMIT)
ClampLimit(opts) ==
    Min(Max(1, IF IsSome(opts.limit) THEN Get(opts.limit) ELSE DEFAULT_LIMIT),
        MAX_LIMIT)

\* the pages taken from the filtered list as it is stored, oldest first
PageOfOldestFirst(store, opts) ==
    IF (Given(opts.after) \/ Given(opts.before)) /\ HasNull(store.messages)
    THEN Threw
    ELSE LET allMessages == Filter(store.messages, opts)
             limit == ClampLimit(opts)
             offset == parseCursor(opts.cursor)
             page == Slice(allMessages, offset, offset + limit)
             hasMore == offset + limit < Len(allMessages)
         IN  Result(page, IF hasMore THEN Some(String(offset + limit)) ELSE None)

\* read, from the loaded record on: filter, reverse, page.  A filter that runs
\* over a null element throws.
PageOf(store, opts) ==
    IF (Given(opts.after) \/ Given(opts.before)) /\ HasNull(store.messages)
    THEN Threw
    ELSE LET allMessages == Reverse(Filter(store.messages, opts))
             limit == ClampLimit(opts)
             offset == parseCursor(opts.cursor)
             page == Slice(allMessages, offset, offset + limit)
             hasMore == offset + limit < Len(allMessages)
         IN  Result(page, IF hasMore THEN Some(String(offset + limit)) ELSE None)

\* read(conversationId, opts); conversationId is None when the caller passes
\* undefined, and resolveFilePath then throws
read(conversationId, opts) ==
    LET filePath == resolveFilePath(conversationId)
    IN  IF filePath.threw THEN Threw
        ELSE PageOf(readStore(filePath.path, Get(conversationId)), opts)

\* the history files of the store directory, in the order readdir gives them
IsListing(order) ==
    /\ {order[i] : i \in 1..Len(order)} = {f \in FileNames : files[f].kind # "absent"}
    /\ \A i, j \in 1..Len(order) : i # j => order[i] # order[j]

Listings ==
    {order \in UNION {[1..n -> FileNames] : n \in 0..Cardinality(FileNames)} :
        IsListing(order)}

RECURSIVE MostRecentLastOnTie(_, _, _)
\* the loop with >= in place of >: of files with equal mtime the last one wins
MostRecentLastOnTie(best, bestMtime, rest) ==
    IF rest = <<>> THEN best
    ELSE IF mtime[Head(rest)] >= bestMtime
         THEN MostRecentLastOnTie(Head(rest), mtime[Head(rest)], Tail(rest))
         ELSE MostRecentLastOnTie(best, bestMtime, Tail(rest))

RECURSIVE MostRecent(_, _, _)
\* for (const f of historyFiles) if (stat.mtimeMs > bestMtime) { ... best = f }
MostRecent(best, bestMtime, rest) ==
    IF rest = <<>> THEN best
    ELSE IF mtime[Head(rest)] > bestMtime
         THEN MostRecent(Head(rest), mtime[Head(rest)], Tail(rest))
         ELSE MostRecent(best, bestMtime, Tail(rest))

\* readDefault(opts) when readdir lists historyFiles: the result of read() is
\* returned as it is, so a rejection of read() is not caught
readDefault(opts, historyFiles) ==
    IF Len(historyFiles) = 0 THEN EmptyResult
    ELSE LET best == MostRecent(historyFiles[1], 0, historyFiles)
             value == readJsonFile(best, emptyStore(""))
         IN  IF value.version # 1 \/ ~value.isArray THEN EmptyResult
             ELSE read(value.conversationId, opts)

-----------------------------------------------------------------------------
(* The callers and what they send *)

Procs == {"p1", "p2"}
Convs == {Conv1, Conv2}

NoHolder == "none"
NoStore == emptyStore("")
NoMsg == Msg("", "")

MA == Msg("a", T2)
MA2 == Msg("a", T1)      \* the id of MA with another time
MB == Msg("b", T3)
MC == Msg("c", T1)
MD == Msg("d", T4)
ME == Msg("", T3)        \* a message without id
MX == Msg("x", BadTime)  \* a message whose time does not parse

\* res: the last call of read, readDefault or prune with its result; arg is the
\* directory listing readDefault got or the list prune was given, and at is the
\* Date.now() of a call of prune
NoRes == [op |-> "none", conv |-> "", opts |-> NoOpts, arg |-> <<>>, at |-> 0,
          result |-> EmptyResult]
\* trav: a traversal; common is the set of messages that were stored at every one
\* of its reads
NoTrav == [state |-> "none", conv |-> "", opts |-> NoOpts, pages |-> <<>>, reads |-> 0,
           common |-> {}]

\* a file that does not exist has no mtime (0 stands for it)
IsDirectory(contents, times) ==
    \A f \in FileNames : contents[f].kind = "absent" => times[f] = 0

\* The state after createMessageHistoryStoreFs(params): the files as they are on
\* disk, the configuration, no call running.
InitWith(fileStates, mtimes, ttls, caps) ==
    /\ files \in fileStates
    /\ mtime \in mtimes
    /\ IsDirectory(files, mtime)
    /\ lock = [f \in FileNames |-> NoHolder]
    /\ now = 1
    /\ ttlMs \in ttls
    /\ maxMessages \in caps
    /\ pc = [p \in Procs |-> "idle"]
    /\ pconv = [p \in Procs |-> ""]
    /\ pmsg = [p \in Procs |-> NoMsg]
    /\ pstore = [p \in Procs |-> NoStore]
    /\ arrivals = [c \in Convs |-> <<>>]
    /\ res = NoRes
    /\ trav = NoTrav

NoFiles == [f \in FileNames |-> NoFile]
NoTimes == [f \in FileNames |-> 0]

\* append calls started so far: those whose body has run and those in flight
CallsMade ==
    Len(arrivals[Conv1]) + Len(arrivals[Conv2])
        + Cardinality({p \in Procs : pc[p] # "idle"})

\* Date.now() advances
Tick ==
    /\ now < MaxNow
    /\ now' = now + 1
    /\ UNCHANGED <<files, mtime, lock, ttlMs, maxMessages, pc, pconv, pmsg, pstore,
                   arrivals, res, trav>>

\* a caller invokes append(conversationId, message)
AppendCall(p, c, m) ==
    /\ pc[p] = "idle"
    /\ CallsMade < MaxCalls
    /\ pc' = [pc EXCEPT ![p] = "wait"]
    /\ pconv' = [pconv EXCEPT ![p] = c]
    /\ pmsg' = [pmsg EXCEPT ![p] = m]
    /\ UNCHANGED <<files, mtime, lock, now, ttlMs, maxMessages, pstore, arrivals,
                   res, trav>>

\* withFileLock: the exclusive scope of a file is free
withFileLockFree(filePath) == lock[filePath] = NoHolder

\* append() without the lock: the callback runs at once
AppendLockSkipped(p) ==
    /\ pc[p] = "wait"
    /\ pc' = [pc EXCEPT ![p] = "load"]
    /\ UNCHANGED <<files, mtime, lock, now, ttlMs, maxMessages, pconv, pmsg, pstore,
                   arrivals, res, trav>>

\* await withFileLock(filePath, empty, ...): the call takes the lock of its file
AppendLock(p) ==
    /\ pc[p] = "wait"
    /\ withFileLockFree(FileOf(pconv[p]))
    /\ lock' = [lock EXCEPT ![FileOf(pconv[p])] = p]
    /\ pc' = [pc EXCEPT ![p] = "load"]
    /\ UNCHANGED <<files, mtime, now, ttlMs, maxMessages, pconv, pmsg, pstore,
                   arrivals, res, trav>>

\* a callback that persists the list as soon as the message is pushed, before the
\* repair and the prune, and persists it again when they are done
AppendLoadPersistsPushed(p) ==
    /\ pc[p] = "load"
    /\ LET store == readStore(FileOf(pconv[p]), pconv[p])
       IN  /\ pstore' = [pstore EXCEPT ![p] = store]
           /\ files' = [files EXCEPT ![FileOf(pconv[p])] =
                  Json([store EXCEPT !.messages = Append(@, pmsg[p])])]
    /\ pc' = [pc EXCEPT ![p] = "modify"]
    /\ UNCHANGED <<mtime, lock, now, ttlMs, maxMessages, pconv, pmsg,
                   arrivals, res, trav>>

\* const store = await readStore(filePath, conversationId)
AppendLoad(p) ==
    /\ pc[p] = "load"
    /\ pstore' = [pstore EXCEPT ![p] = readStore(FileOf(pconv[p]), pconv[p])]
    /\ pc' = [pc EXCEPT ![p] = "modify"]
    /\ UNCHANGED <<files, mtime, lock, now, ttlMs, maxMessages, pconv, pmsg,
                   arrivals, res, trav>>

\* writeJsonFile(filePath, store): the file is replaced in one step
writeJsonFile(filePath, store) ==
    /\ files' = [files EXCEPT ![filePath] = Json(store)]
    /\ mtime' = [mtime EXCEPT ![filePath] = now]

\* the rest of the callback: dedupe, push, repair, prune, persist
AppendModify(p) ==
    /\ pc[p] = "modify"
    /\ LET r == AppendBody(pstore[p], pmsg[p])
       IN  /\ IF r.outcome = "write"
              THEN writeJsonFile(FileOf(pconv[p]), r.store)
              ELSE UNCHANGED <<files, mtime>>
           /\ pc' = [pc EXCEPT ![p] =
                  IF r.outcome = "write" THEN "written"
                  ELSE IF r.outcome = "deduped" THEN "deduped" ELSE "threw"]
           /\ arrivals' = IF r.outcome = "throws" THEN arrivals
                          ELSE [arrivals EXCEPT ![pconv[p]] = Append(@, pmsg[p])]
    /\ pstore' = [pstore EXCEPT ![p] = NoStore]
    /\ UNCHANGED <<lock, now, ttlMs, maxMessages, pconv, pmsg, res, trav>>

\* a callback that catches the error of writeJsonFile and returns as if it had
\* written
AppendWriteFailsSwallowed(p) ==
    /\ pc[p] = "modify"
    /\ AppendBody(pstore[p], pmsg[p]).outcome = "write"
    /\ pc' = [pc EXCEPT ![p] = "written"]
    /\ pstore' = [pstore EXCEPT ![p] = NoStore]
    /\ UNCHANGED <<files, mtime, lock, now, ttlMs, maxMessages, pconv, pmsg,
                   arrivals, res, trav>>

\* writeJsonFile fails (disk full, permission denied): nothing is written and the
\* error leaves the callback
AppendWriteFails(p) ==
    /\ pc[p] = "modify"
    /\ AppendBody(pstore[p], pmsg[p]).outcome = "write"
    /\ pc' = [pc EXCEPT ![p] = "threw"]
    /\ pstore' = [pstore EXCEPT ![p] = NoStore]
    /\ UNCHANGED <<files, mtime, lock, now, ttlMs, maxMessages, pconv, pmsg,
                   arrivals, res, trav>>

\* a lock wrapper that releases the lock only when the callback has returned
AppendReleaseUnlessThrew(p) ==
    /\ pc[p] \in {"written", "deduped", "threw"}
    /\ lock' = IF pc[p] = "threw" THEN lock
               ELSE [lock EXCEPT ![FileOf(pconv[p])] = NoHolder]
    /\ pc' = [pc EXCEPT ![p] = "idle"]
    /\ pconv' = [pconv EXCEPT ![p] = ""]
    /\ pmsg' = [pmsg EXCEPT ![p] = NoMsg]
    /\ UNCHANGED <<files, mtime, now, ttlMs, maxMessages, pstore, arrivals, res, trav>>

\* the callback has returned or thrown: the lock is released and append() settles
AppendRelease(p) ==
    /\ pc[p] \in {"written", "deduped", "threw"}
    /\ lock' = [lock EXCEPT ![FileOf(pconv[p])] = NoHolder]
    /\ pc' = [pc EXCEPT ![p] = "idle"]
    /\ pconv' = [pconv EXCEPT ![p] = ""]
    /\ pmsg' = [pmsg EXCEPT ![p] = NoMsg]
    /\ UNCHANGED <<files, mtime, now, ttlMs, maxMessages, pstore, arrivals, res, trav>>

\* prune(messages, ttlMs, maxMessages) is applied to a list, once in a behaviour
PruneApply(messages) ==
    /\ res = NoRes
    /\ res' = [op |-> "prune", conv |-> "", opts |-> NoOpts, arg |-> messages,
               at |-> now, result |-> Result(prune(messages), None)]
    /\ UNCHANGED <<files, mtime, lock, now, ttlMs, maxMessages, pc, pconv, pmsg,
                   pstore, arrivals, trav>>

\* the messages of the persisted record of a conversation, as a set
StoredSet(c) ==
    LET messages == readStore(FileOf(c), c).messages
    IN  {messages[i] : i \in 1..Len(messages)}

\* a caller invokes read(conversationId, opts)
Read(c, opts) ==
    /\ res' = [op |-> "read", conv |-> c, opts |-> opts, arg |-> <<>>, at |-> 0,
               result |-> read(Some(c), opts)]
    /\ UNCHANGED <<files, mtime, lock, now, ttlMs, maxMessages, pc, pconv, pmsg,
                   pstore, arrivals, trav>>

\* the only call of read in a behaviour
ReadOnce(c, opts) == res = NoRes /\ Read(c, opts)

\* a caller invokes readDefault(opts); readdir lists the history files in some order
ReadDefault(opts) ==
    /\ \E historyFiles \in Listings :
          res' = [op |-> "readDefault", conv |-> "", opts |-> opts,
                  arg |-> historyFiles, at |-> 0,
                  result |-> readDefault(opts, historyFiles)]
    /\ UNCHANGED <<files, mtime, lock, now, ttlMs, maxMessages, pc, pconv, pmsg,
                   pstore, arrivals, trav>>

\* what a traversal knows after a read: the pages so far and the cursor to go on with
TravAfter(c, opts, pages, reads, common, r) ==
    [state |-> IF r.threw THEN "failed"
               ELSE IF IsSome(r.nextCursor) THEN "open" ELSE "done",
     conv |-> c,
     opts |-> [opts EXCEPT !.cursor = r.nextCursor],
     pages |-> pages \o r.messages,
     reads |-> reads + 1,
     common |-> common]

\* a caller starts a traversal: read without cursor
TravStart(c, limit, before, after) ==
    /\ trav.state = "none"
    /\ LET opts == Opts(limit, None, before, after)
       IN  trav' = TravAfter(c, opts, <<>>, 0, StoredSet(c), read(Some(c), opts))
    /\ UNCHANGED <<files, mtime, lock, now, ttlMs, maxMessages, pc, pconv, pmsg,
                   pstore, arrivals, res>>

\* the caller goes on: read with the nextCursor of the previous result
TravNext ==
    /\ trav.state = "open"
    /\ trav' = TravAfter(trav.conv, trav.opts, trav.pages, trav.reads,
                         trav.common \cap StoredSet(trav.conv),
                         read(Some(trav.conv), trav.opts))
    /\ UNCHANGED <<files, mtime, lock, now, ttlMs, maxMessages, pc, pconv, pmsg,
                   pstore, arrivals, res>>

-----------------------------------------------------------------------------
(* Concurrent appends to one conversation *)

PoolSpec == {MA, MA2, MB, ME}

Init == InitWith({NoFiles}, {NoTimes}, {2}, {1, 2})

Next ==
    \/ Tick
    \/ \E p \in Procs, m \in PoolSpec : AppendCall(p, Conv1, m)
    \/ \E p \in Procs : AppendLock(p)
    \/ \E p \in Procs : AppendLoad(p)
    \/ \E p \in Procs : AppendModify(p)
    \/ \E p \in Procs : AppendWriteFails(p)
    \/ \E p \in Procs : AppendRelease(p)

Spec == Init /\ [][Next]_vars

-----------------------------------------------------------------------------
(* One caller appending to one conversation, one call after the other *)

PoolSeq == {MA, MB, MC, MD, ME, MX}

InitSeq == InitWith({NoFiles}, {NoTimes}, {2}, {1, 2, 3})

NextSeq ==
    \/ Tick
    \/ \E m \in PoolSeq : AppendCall("p1", Conv1, m)
    \/ AppendLock("p1")
    \/ AppendLoad("p1")
    \/ AppendModify("p1")
    \/ AppendWriteFails("p1")
    \/ AppendRelease("p1")

SpecSeq == InitSeq /\ [][NextSeq]_vars

-----------------------------------------------------------------------------
(* Cursor traversals of a conversation that nobody appends to *)

MaxStored == 3    \* messages in a short stored list

PoolRead == {MA, MB, MC, MD, ME}

\* a stored list as append leaves it: ascending, no message twice
ShortLists ==
    {list \in UNION {[1..n -> PoolRead] : n \in 0..MaxStored} :
        /\ Ascending(list)
        /\ \A i, j \in 1..Len(list) : i # j => list[i] # list[j]}

\* a stored list with more messages than the greatest page
LongList == [i \in 1..(MAX_LIMIT + 2) |-> Msg(ToString(i), T4)]

Record(c, list) == Json(StoreValue(1, Some(c), TRUE, list))

FilesRead ==
    {[NoFiles EXCEPT ![FileOf(Conv1)] = Record(Conv1, list)] :
        list \in ShortLists \cup {LongList}}

TimesRead == {[NoTimes EXCEPT ![FileOf(Conv1)] = 1]}

LimitsRead == {None, Some(0 - 1), Some(0), Some(1), Some(2), Some(3), Some(MAX_LIMIT + 10)}
BoundsRead == {None, Some(""), Some(T1), Some(T3)}

InitRead == InitWith(FilesRead, TimesRead, {2}, {MaxStored})

NextRead ==
    \/ \E limit \in LimitsRead, before \in BoundsRead, after \in BoundsRead :
          TravStart(Conv1, limit, before, after)
    \/ TravNext

SpecRead == InitRead /\ [][NextRead]_vars

-----------------------------------------------------------------------------
(* Reads of a store directory whose files are missing or damaged *)

\* what the file of conversation c may hold
Damaged(c) ==
    {NoFile,
     Unparsable,
     Json(StoreValue(2, Some(c), TRUE, <<MA>>)),       \* another version
     Json(StoreValue(1, Some(c), FALSE, <<>>)),        \* messages is no array
     Json(StoreValue(1, None, TRUE, <<MA>>)),          \* conversationId is missing
     Json(StoreValue(1, Some(c), TRUE, <<MA, null>>)), \* an element is null
     Record(c, <<MA, MB>>)}                            \* a sound record

FilesCorrupt ==
    {[NoFiles EXCEPT ![FileOf(Conv1)] = f1, ![FileOf(Conv2)] = f2] :
        f1 \in Damaged(Conv1), f2 \in Damaged(Conv2)}

TimesCorrupt == [FileNames -> {0, 1}]

OptsCorrupt ==
    {NoOpts, Opts(Some(1), None, None, None), Opts(None, None, None, Some(T1))}

InitCorrupt == InitWith(FilesCorrupt, TimesCorrupt, {2}, {2})

NextCorrupt ==
    \/ \E c \in Convs, opts \in OptsCorrupt : Read(c, opts)
    \/ \E opts \in OptsCorrupt : ReadDefault(opts)

SpecCorrupt == InitCorrupt /\ [][NextCorrupt]_vars

-----------------------------------------------------------------------------
(* One caller appending to two conversations, and readDefault *)

PoolMulti == {MA, MB}

OptsMulti == {NoOpts, Opts(Some(1), None, None, Some(T2))}

InitMulti == InitWith({NoFiles}, {NoTimes}, {2}, {2})

NextMulti ==
    \/ Tick
    \/ \E c \in Convs, m \in PoolMulti : AppendCall("p1", c, m)
    \/ AppendLock("p1")
    \/ AppendLoad("p1")
    \/ AppendModify("p1")
    \/ AppendWriteFails("p1")
    \/ AppendRelease("p1")
    \/ ReadDefault(NoOpts)

SpecMulti == InitMulti /\ [][NextMulti]_vars

-----------------------------------------------------------------------------
(* One caller appending to a conversation while another one reads it *)

PoolConc == {MA, MB, MC}

InitConc == InitWith({NoFiles}, {NoTimes}, {2}, {2})

NextConc ==
    \/ Tick
    \/ \E m \in PoolConc : AppendCall("p1", Conv1, m)
    \/ AppendLock("p1")
    \/ AppendLoad("p1")
    \/ AppendModify("p1")
    \/ AppendWriteFails("p1")
    \/ AppendRelease("p1")
    \/ Read(Conv1, NoOpts)

SpecConc == InitConc /\ [][NextConc]_vars

-----------------------------------------------------------------------------
(* Two callers appending to two conversations under fair scheduling *)

PoolLive == {MB}

InitLive == InitWith({NoFiles}, {NoTimes}, {2}, {2})

NextLive ==
    \/ Tick
    \/ \E p \in Procs, c \in Convs, m \in PoolLive : AppendCall(p, c, m)
    \/ \E p \in Procs : AppendLock(p)
    \/ \E p \in Procs : AppendLoad(p)
    \/ \E p \in Procs : AppendModify(p)
    \/ \E p \in Procs : AppendWriteFails(p)
    \/ \E p \in Procs : AppendRelease(p)

\* every step of a call that can be taken is taken in the end (the event loop runs
\* every continuation that is ready), and a call that waits for a lock that is
\* free again and again gets it in the end (the retries of the lock wrapper)
FairLive ==
    \A p \in Procs :
        /\ SF_vars(AppendLock(p))
        /\ WF_vars(AppendLoad(p))
        /\ WF_vars(AppendModify(p) \/ AppendWriteFails(p))
        /\ WF_vars(AppendRelease(p))

SpecLive == InitLive /\ [][NextLive]_vars /\ FairLive

-----------------------------------------------------------------------------
(* prune applied to lists of every order, at every time *)

PoolPrune == {MA, MB, MC, MD, MX}

\* every list of at most MaxStored messages, in any order, a message may repeat
PruneLists == UNION {[1..n -> PoolPrune] : n \in 0..MaxStored}

InitPrune == InitWith({NoFiles}, {NoTimes}, {1, 2}, {0, 1, 2})

NextPrune ==
    \/ Tick
    \/ \E messages \in PruneLists : PruneApply(messages)

SpecPrune == InitPrune /\ [][NextPrune]_vars

-----------------------------------------------------------------------------
(* Single reads with every kind of limit and cursor *)

\* cursors a caller may pass: none, the empty string, offsets as read returns them,
\* and strings that read never returned
CursorsPage ==
    {None, Some(<<>>), Some(<<"0">>), Some(<<"1">>), Some(<<"2">>), Some(<<"3">>),
     Some(<<"5", "0">>), Some(<<"5", "1">>), Some(<<"a", "b", "c">>),
     Some(<<"-", "3">>), Some(<<"2", "x">>), Some(<<" ", "1">>)}

BoundsPage == {None, Some(T1), Some(T3)}

OptsPage ==
    {Opts(limit, cursor, before, after) :
        limit \in LimitsRead, cursor \in CursorsPage,
        before \in BoundsPage, after \in BoundsPage}

NextPage == \E opts \in OptsPage : ReadOnce(Conv1, opts)

SpecPage == InitRead /\ [][NextPage]_vars

-----------------------------------------------------------------------------
(* One caller appending to conversations whose files are missing or damaged *)

PoolRecover == {MC, MD}

NextRecover ==
    \/ Tick
    \/ \E c \in Convs, m \in PoolRecover : AppendCall("p1", c, m)
    \/ AppendLock("p1")
    \/ AppendLoad("p1")
    \/ AppendModify("p1")
    \/ AppendWriteFails("p1")
    \/ AppendRelease("p1")

SpecRecover == InitCorrupt /\ [][NextRecover]_vars

-----------------------------------------------------------------------------
(* A cursor traversal of a conversation that one caller appends to *)

PoolTrav == {MA, MD}

FilesTrav ==
    {[NoFiles EXCEPT ![FileOf(Conv1)] = Record(Conv1, list)] : list \in ShortLists}

\* the conversation holds a list that earlier appends left: no longer than the
\* capacity
InitTrav ==
    /\ InitWith(FilesTrav, TimesRead, {2}, {2, 3})
    /\ Len(readStore(FileOf(Conv1), Conv1).messages) <= maxMessages

NextTrav ==
    \/ Tick
    \/ \E m \in PoolTrav : AppendCall("p1", Conv1, m)
    \/ AppendLock("p1")
    \/ AppendLoad("p1")
    \/ AppendModify("p1")
    \/ AppendWriteFails("p1")
    \/ AppendRelease("p1")
    \/ \E limit \in {Some(1), Some(2)} : TravStart(Conv1, limit, None, None)
    \/ TravNext

SpecTrav == InitTrav /\ [][NextTrav]_vars

-----------------------------------------------------------------------------
(* What the claims speak of *)

\* the persisted message list of a conversation (empty when the record is absent
\* or invalid)
Stored(c) == readStore(FileOf(c), c).messages

AllIdle == \A p \in Procs : pc[p] = "idle"

\* the call has loaded the record and not yet persisted it
Between(p) == pc[p] = "modify"

Occurs(m, list) == \E i \in 1..Len(list) : list[i] = m

\* the ids of a list, each as often as it occurs
IdCount(id, list) == Cardinality({i \in 1..Len(list) : list[i].id = id})

InWindow(m) == IsFresh(m, now - ttlMs)

\* no message at or before the cutoff of the time t (or without a valid time)
NoneExpired(list, t) == \A i \in 1..Len(list) : IsFresh(list[i], t - ttlMs)

-----------------------------------------------------------------------------
\* C1: no lost updates. Two appends to one conversation are never both between
\* their load and their persist, and once every call has completed, each message
\* that was appended, whose id no other appended message has, whose time is inside
\* the retention window and for which there was room (no more appends than
\* maxMessages), is in the persisted record.
C1_NoLostUpdates ==
    /\ \A p, q \in Procs :
          (p # q /\ pconv[p] = pconv[q]) => ~(Between(p) /\ Between(q))
    /\ AllIdle =>
          \A c \in Convs : \A i \in 1..Len(arrivals[c]) :
              LET m == arrivals[c][i]
              IN  (/\ IdCount(m.id, arrivals[c]) = 1
                   /\ InWindow(m)
                   /\ Len(arrivals[c]) <= maxMessages)
                  => Occurs(m, Stored(c))

\* one call has persisted a second message while another call waits for the lock
C1_Witness ==
    \E p, q \in Procs :
        /\ pc[p] = "written" /\ pc[q] = "wait" /\ pconv[p] = pconv[q]
        /\ Len(arrivals[pconv[p]]) = 2
        /\ \A i \in 1..2 : Occurs(arrivals[pconv[p]][i], Stored(pconv[p]))
        /\ arrivals[pconv[p]][1].id # arrivals[pconv[p]][2].id

\* C2 as stated: an append of a message that was appended before leaves the
\* persisted message list as it is, whatever the message and the record.
C2_Original ==
    [][\A p \in Procs :
          (/\ pc[p] = "modify" /\ pc'[p] \in {"written", "deduped"}
           /\ Occurs(pmsg[p], arrivals[pconv[p]]))
          => readStore(FileOf(pconv[p]), pconv[p]).messages'
                 = readStore(FileOf(pconv[p]), pconv[p]).messages]_vars

\* C2 amended: an append of a message whose non-empty id is in the persisted
\* record returns without error and leaves the persisted record as it is.
C2_IdempotentOnStoredId ==
    [][\A p \in Procs :
          (/\ pc[p] = "modify" /\ pc'[p] # "modify"
           /\ pmsg[p].id # ""
           /\ IdCount(pmsg[p].id, Stored(pconv[p])) > 0)
          => (pc'[p] = "deduped" /\ files' = files)]_vars

\* a retried message was deduplicated: it was appended before and is stored once
C2_Witness ==
    \E p \in Procs :
        /\ pc[p] = "deduped"
        /\ Cardinality({i \in 1..Len(arrivals[pconv[p]]) :
                            arrivals[pconv[p]][i] = pmsg[p]}) = 2
        /\ Cardinality({i \in 1..Len(Stored(pconv[p])) :
                            Stored(pconv[p])[i] = pmsg[p]}) = 1

\* C3: in a record that started empty and that only append calls changed, no two
\* stored messages share a non-empty id.
C3_UniqueIds ==
    \A c \in Convs : \A i, j \in 1..Len(Stored(c)) :
        (i # j /\ Stored(c)[i].id # "") => Stored(c)[i].id # Stored(c)[j].id

\* a message with the id of a stored message, but another time, was deduplicated
C3_Witness ==
    \E p \in Procs :
        /\ pc[p] = "deduped"
        /\ ~Occurs(pmsg[p], Stored(pconv[p]))
        /\ IdCount(pmsg[p].id, Stored(pconv[p])) = 1

\* C4: when an append has completed, deduplicated or not, the persisted list is
\* no longer than maxMessages.
C4_Capacity ==
    \A p \in Procs :
        pc[p] \in {"written", "deduped"} => Len(Stored(pconv[p])) <= maxMessages

\* an append was deduplicated on a full record that an earlier append had trimmed
C4_Witness ==
    \E p \in Procs :
        /\ pc[p] = "deduped"
        /\ Len(Stored(pconv[p])) = maxMessages
        /\ \E i \in 1..Len(arrivals[pconv[p]]) :
              /\ InWindow(arrivals[pconv[p]][i])
              /\ IdCount(arrivals[pconv[p]][i].id, Stored(pconv[p])) = 0

\* C5 as stated: when an append completes at the time now, deduplicated or not,
\* the persisted record holds no message at or before now - ttl.
C5_Original ==
    [][\A p \in Procs :
          (pc[p] = "modify" /\ pc'[p] \in {"written", "deduped"})
          => NoneExpired(readStore(FileOf(pconv[p]), pconv[p]).messages', now)]_vars

\* C6: when an append adds a message whose createdDateTime sorts before that of
\* the message that was last, the list it persists is in ascending createdDateTime
\* order; and after the appends of t1, t3, t2 (t1 < t2 < t3, three messages that
\* are all kept) to an empty conversation the stored order is t1, t2, t3.
C6_OrderingRepair ==
    /\ [][\A p \in Procs :
            (/\ pc[p] = "modify" /\ pc'[p] = "written"
             /\ pstore[p].messages # <<>>
             /\ StrLt(pmsg[p].createdDateTime,
                      pstore[p].messages[Len(pstore[p].messages)].createdDateTime))
            => Ascending(readStore(FileOf(pconv[p]), pconv[p]).messages')]_vars
    /\ [](\A c \in Convs :
            LET a == arrivals[c]
            IN  (/\ Len(a) = 3
                 /\ StrLt(a[1].createdDateTime, a[3].createdDateTime)
                 /\ StrLt(a[3].createdDateTime, a[2].createdDateTime)
                 /\ \A i \in 1..3 : InWindow(a[i]) /\ IdCount(a[i].id, a) = 1
                 /\ maxMessages >= 3)
                => Stored(c) = <<a[1], a[3], a[2]>>)

\* the third of three appends arrived out of order and the repair has sorted the
\* three messages
C6_Witness ==
    \E p \in Procs :
        /\ pc[p] = "written"
        /\ Len(arrivals[pconv[p]]) = 3
        /\ Len(Stored(pconv[p])) = 3
        /\ pmsg[p] = Stored(pconv[p])[2]
        /\ pmsg[p] = arrivals[pconv[p]][3]
        /\ StrLt(Stored(pconv[p])[1].createdDateTime, pmsg[p].createdDateTime)
        /\ StrLt(pmsg[p].createdDateTime, Stored(pconv[p])[3].createdDateTime)

\* the messages of a list that have fewer than n messages of the list sorting
\* after them
Greatest(n, list) ==
    {list[i] : i \in {i \in 1..Len(list) :
        Cardinality({j \in 1..Len(list) :
            StrLt(list[i].createdDateTime, list[j].createdDateTime)}) < n}}

DistinctIdsAndTimes(list) ==
    \A i, j \in 1..Len(list) :
        i # j => /\ list[i].id # list[j].id
                 /\ list[i].createdDateTime # list[j].createdDateTime

\* C7: after the appends of more than maxMessages messages with distinct ids and
\* distinct times, all inside the retention window, to an empty conversation, in
\* any order, the persisted list holds exactly the maxMessages messages with the
\* greatest createdDateTime.
C7_CapacityKeepsGreatest ==
    \A c \in Convs :
        LET a == arrivals[c]
        IN  (/\ Len(a) > maxMessages
             /\ DistinctIdsAndTimes(a)
             /\ \A i \in 1..Len(a) : InWindow(a[i]))
            => /\ Len(Stored(c)) = maxMessages
               /\ {Stored(c)[i] : i \in 1..Len(Stored(c))} = Greatest(maxMessages, a)

\* more messages than maxMessages were appended, and the one that arrived last
\* was the oldest and is the one that was dropped
C7_Witness ==
    LET a == arrivals[Conv1]
    IN  /\ Len(a) > maxMessages
        /\ maxMessages >= 2
        /\ DistinctIdsAndTimes(a)
        /\ \A i \in 1..Len(a) : InWindow(a[i])
        /\ \A i \in 1..Len(a) - 1 :
              StrLt(a[Len(a)].createdDateTime, a[i].createdDateTime)
        /\ ~Occurs(a[Len(a)], Stored(Conv1))
        /\ Len(Stored(Conv1)) = maxMessages

\* the traversal uses no range filter
Unfiltered(opts) == ~IsSome(opts.before) /\ ~IsSome(opts.after)

\* C8: on a conversation that is not modified, for every limit, read without
\* cursor and then with each nextCursor until none comes back ends after at most
\* N reads (every read that returns a cursor has returned a further message), and
\* the pages, one after the other, are the stored list newest first: every
\* message once, N in all.
C8_PaginationRoundTrip ==
    Unfiltered(trav.opts) =>
        /\ trav.state # "failed"
        /\ trav.state = "done" => trav.pages = Reverse(Stored(trav.conv))
        /\ trav.state = "open" =>
              /\ trav.reads <= Len(trav.pages)
              /\ Len(trav.pages) < Len(Stored(trav.conv))

\* a traversal of three or more pages has ended
C8_Witness ==
    /\ trav.state = "done"
    /\ Unfiltered(trav.opts)
    /\ trav.reads >= 3
    /\ Len(trav.pages) >= 3

\* the message is inside the bounds that are given, both exclusive
InsideBounds(m, opts) ==
    /\ Given(opts.after) => StrGt(m.createdDateTime, Get(opts.after))
    /\ Given(opts.before) => StrLt(m.createdDateTime, Get(opts.before))

InvalidRecord(c) ==
    \/ files[FileOf(c)].kind # "json"
    \/ files[FileOf(c)].value.version # 1
    \/ ~files[FileOf(c)].value.isArray

\* C10: read and readDefault return a result whatever the files hold (absent,
\* unparsable, another version, messages that are no array, a missing
\* conversationId or other malformed fields), and for an absent or invalid record
\* the result of read is an empty list without nextCursor.
C10_Original ==
    res.op \in {"read", "readDefault"} =>
        /\ ~res.result.threw
        /\ (res.op = "read" /\ InvalidRecord(res.conv)) => res.result = EmptyResult
        /\ (res.op = "readDefault" /\ \A c \in Convs : InvalidRecord(c))
              => res.result = EmptyResult

\* the place in a directory listing of the first file with the greatest mtime
FirstNewest(order) ==
    CHOOSE i \in 1..Len(order) :
        /\ \A j \in 1..Len(order) : mtime[order[j]] <= mtime[order[i]]
        /\ \A j \in 1..(i - 1) : mtime[order[j]] < mtime[order[i]]

\* C11: default resolution. In every state that appends to several conversations
\* lead to, and for every order in which the directory lists the history files,
\* readDefault(opts) returns what read(c, opts) returns for the conversation c
\* whose file has the greatest mtime, the first such file of the listing on a tie;
\* without any history file it returns the empty result.
C11_DefaultResolution ==
    \A order \in Listings, opts \in OptsMulti :
        IF order = <<>> THEN readDefault(opts, order) = EmptyResult
        ELSE \E c \in Convs :
                /\ FileOf(c) = order[FirstNewest(order)]
                /\ readDefault(opts, order) = read(Some(c), opts)

\* readDefault has returned the messages of the conversation written last, whose
\* file the directory lists second, and the other conversation holds other messages
C11_Witness ==
    /\ res.op = "readDefault"
    /\ Len(res.arg) = 2
    /\ mtime[res.arg[1]] < mtime[res.arg[2]]
    /\ mtime = [NoTimes EXCEPT ![res.arg[1]] = mtime[res.arg[1]],
                               ![res.arg[2]] = mtime[res.arg[2]]]
    /\ res.result = readDefault(res.opts, res.arg)
    /\ res.result.messages # <<>>
    /\ read(Some(Conv1), res.opts) # read(Some(Conv2), res.opts)

\* a record as an append leaves it: repaired (ascending) and cut to the capacity
Complete(list) == Ascending(list) /\ Len(list) <= maxMessages

\* C12: reads are isolated from an append in flight. The file of a conversation
\* always holds a complete record (never unparsable bytes, never a list that is
\* pushed but not yet repaired or pruned); while an append is between its load and
\* its persist the file, and so the result of a read, is still the record before
\* that append; and the step that persists replaces it by the complete record
\* after the append (pushed, repaired and pruned) or leaves it as it was.
C12_ReadIsolation ==
    /\ [](\A c \in Convs :
            /\ files[FileOf(c)].kind \in {"absent", "json"}
            /\ Complete(Stored(c)))
    /\ [](\A p \in Procs : Between(p) =>
            /\ readStore(FileOf(pconv[p]), pconv[p]) = pstore[p]
            /\ read(Some(pconv[p]), NoOpts) = PageOf(pstore[p], NoOpts))
    /\ [][\A p \in Procs : Between(p) =>
            LET f == FileOf(pconv[p])
                after == prune(PushAndRepair(pstore[p].messages, pmsg[p]))
            IN  \/ files'[f] = files[f]
                \/ files'[f] = Json([pstore[p] EXCEPT !.messages = after])]_vars

\* a read has returned the record before an append that is between its load and
\* its persist, and the list that append has pushed to is neither that record nor
\* the one it is going to persist
C12_Witness ==
    \E p \in Procs :
        /\ Between(p)
        /\ res.op = "read" /\ res.conv = pconv[p]
        /\ res.result = PageOf(pstore[p], NoOpts)
        /\ res.result.messages # <<>>
        /\ LET pushed == Append(pstore[p].messages, pmsg[p])
               r == AppendBody(pstore[p], pmsg[p])
           IN  /\ r.outcome = "write"
               /\ pushed # r.store.messages
               /\ ~Complete(pushed)

\* C13: write failures. The callback of an append that was produced by appends
\* never throws by itself, whether the message is a duplicate or out of order: it
\* returns deduplicated or goes on to persist. When the persist fails the call
\* ends as failed and every file is as it was before; and a call ends as written
\* only when the file holds the record it computed.
C13_WriteFailure ==
    /\ [](\A p \in Procs : Between(p) =>
            AppendBody(pstore[p], pmsg[p]).outcome \in {"write", "deduped"})
    /\ [][\A p \in Procs : Between(p) =>
            LET r == AppendBody(pstore[p], pmsg[p])
                f == FileOf(pconv[p])
            IN  /\ pc'[p] = "threw" =>
                      /\ r.outcome = "write"
                      /\ files' = files /\ mtime' = mtime
                /\ pc'[p] = "deduped" =>
                      /\ r.outcome = "deduped"
                      /\ files' = files /\ mtime' = mtime
                /\ pc'[p] = "written" =>
                      /\ r.outcome = "write"
                      /\ files'[f] = Json(r.store)]_vars

\* the persist of a message that would have been stored has failed, the record
\* holds the earlier messages and not this one
C13_Witness ==
    \E p \in Procs :
        /\ pc[p] = "threw"
        /\ Stored(pconv[p]) # <<>>
        /\ InWindow(pmsg[p])
        /\ IdCount(pmsg[p].id, Stored(pconv[p])) = 0
        /\ ~Occurs(pmsg[p], Stored(pconv[p]))

\* the call holds the lock of its file
Holds(p) == pc[p] \in {"load", "modify", "written", "deduped", "threw"}

\* C14: append terminates. Under fair scheduling every append call that was made
\* completes in the end, whatever the other calls do and whether they fail; and a
\* call that waits can take the lock of its file whenever no other call to the same
\* conversation holds it, whatever is held for other conversations.
C14_AppendTerminates ==
    /\ \A p \in Procs : (pc[p] # "idle") ~> (pc[p] = "idle")
    /\ [](\A p \in Procs :
            (/\ pc[p] = "wait"
             /\ \A q \in Procs \ {p} : Holds(q) => pconv[q] # pconv[p])
            => ENABLED AppendLock(p))

\* a call waits for the lock of a conversation whose other append has just failed
C14_Witness ==
    \E p, q \in Procs :
        /\ pc[p] = "wait" /\ pc[q] = "threw"
        /\ pconv[p] = pconv[q]
        /\ lock[FileOf(pconv[p])] = q

\* the places of a list whose message has a valid time after t - ttl
KeptPlaces(list, t) ==
    {i \in 1..Len(list) :
        LET ts == DateParse(list[i].createdDateTime)
        IN  ~ts.nan /\ ts.v > t - ttlMs}

\* the list of the messages at the last maxMessages kept places, in their order
PruneExpected(list, t) ==
    LET K == KeptPlaces(list, t)
        n == Min(Cardinality(K), maxMessages)
        last == {i \in K : Cardinality({j \in K : j > i}) < n}
        place(k) == CHOOSE i \in last : Cardinality({j \in last : j < i}) = k - 1
    IN  [k \in 1..n |-> list[place(k)]]

\* C15: prune. For every list, ttl and maxMessages, prune returns, in their order
\* in the list, the messages whose createdDateTime parses to a valid time after
\* now - ttl (a message at the cutoff or without valid time is dropped), and of
\* these only the last maxMessages when there are more: the capacity is applied to
\* the list that the age filter leaves.
C15_Prune ==
    res.op = "prune" => res.result.messages = PruneExpected(res.arg, res.at)

\* prune was given a list that ends with a message exactly at the cutoff and has
\* more fresh messages than the capacity, and has returned the last fresh one
C15_Witness ==
    /\ res.op = "prune"
    /\ maxMessages = 1
    /\ Len(res.arg) = 3
    /\ DateParse(res.arg[3].createdDateTime) = Num(res.at - ttlMs)
    /\ KeptPlaces(res.arg, res.at) = {1, 2}
    /\ res.result.messages = <<res.arg[2]>>

\* the offset that each cursor stands for: the number it spells (a cursor that
\* starts with digits, after blanks, counts with these digits), 0 when there is no
\* cursor, no number or a negative one
CursorOffset(cursor) ==
    IF cursor = Some(<<"1">>) \/ cursor = Some(<<" ", "1">>) THEN 1
    ELSE IF cursor = Some(<<"2">>) \/ cursor = Some(<<"2", "x">>) THEN 2
    ELSE IF cursor = Some(<<"3">>) THEN 3
    ELSE IF cursor = Some(<<"5", "0">>) THEN MAX_LIMIT
    ELSE IF cursor = Some(<<"5", "1">>) THEN MAX_LIMIT + 1
    ELSE 0

\* str is the decimal numeral of n (n < 1000)
IsDecimalOf(str, n) ==
    LET len == IF n < 10 THEN 1 ELSE IF n < 100 THEN 2 ELSE 3
        power(k) == IF k = 0 THEN 1 ELSE IF k = 1 THEN 10 ELSE 100
    IN  /\ Len(str) = len
        /\ \A k \in 1..len : str[k] = Digits[((n \div power(len - k)) % 10) + 1]

\* C16: page and cursor. For every stored list, limit and cursor, read returns
\* the places offset+1 .. offset+limit of the stored messages inside the bounds,
\* newest first, where limit is the requested limit clamped to 1..MAX_LIMIT
\* (DEFAULT_LIMIT when absent) and offset is the number of the cursor (0 when
\* absent or no non-negative number); nextCursor is there exactly when
\* offset + limit is less than the number of these messages and is then the
\* decimal numeral of offset + limit; an offset at or past the end gives the empty
\* result.
C16_PageAndCursor ==
    res.op = "read" =>
        LET opts == res.opts
            sel == SelectSeq(Stored(res.conv), LAMBDA m : InsideBounds(m, opts))
            n == Len(sel)
            limit == IF ~IsSome(opts.limit) THEN DEFAULT_LIMIT
                     ELSE IF Get(opts.limit) < 1 THEN 1
                     ELSE IF Get(opts.limit) > MAX_LIMIT THEN MAX_LIMIT
                     ELSE Get(opts.limit)
            offset == CursorOffset(opts.cursor)
            k == IF offset >= n THEN 0 ELSE Min(limit, n - offset)
        IN  /\ ~res.result.threw
            /\ res.result.messages = [i \in 1..k |-> sel[n - (offset + i) + 1]]
            /\ IsSome(res.result.nextCursor) <=> offset + limit < n
            /\ IsSome(res.result.nextCursor)
                  => IsDecimalOf(Get(res.result.nextCursor), offset + limit)
            /\ offset >= n => res.result = EmptyResult

\* a read with a limit above MAX_LIMIT and a cursor with a trailing letter has
\* returned MAX_LIMIT messages of a longer list, from the third on
C16_Witness ==
    /\ res.op = "read"
    /\ IsSome(res.opts.limit) /\ Get(res.opts.limit) > MAX_LIMIT
    /\ res.opts.cursor = Some(<<"2", "x">>)
    /\ Len(res.result.messages) = MAX_LIMIT
    /\ res.result.messages[1] = Stored(res.conv)[Len(Stored(res.conv)) - 2]
    /\ ~IsSome(res.result.nextCursor)

\* C17: recovery on append. When the file of the conversation is missing,
\* unparsable, of another version or has messages that are no array, the append
\* has loaded an empty record stamped with the requested conversationId and its
\* callback does not throw; and when it persists a message inside the retention
\* window (maxMessages >= 1) the file then holds the valid version-1 record of that
\* conversationId with exactly this message.
C17_RecoveryOnAppend ==
    [][\A p \in Procs :
          (Between(p) /\ InvalidRecord(pconv[p])) =>
              /\ pstore[p] = emptyStore(pconv[p])
              /\ AppendBody(pstore[p], pmsg[p]).outcome = "write"
              /\ pc'[p] # "deduped"
              /\ (pc'[p] = "written" /\ InWindow(pmsg[p]) /\ maxMessages >= 1)
                    => files'[FileOf(pconv[p])] =
                          Json(StoreValue(1, Some(pconv[p]), TRUE, <<pmsg[p]>>))]_vars

\* the first append to a conversation has persisted a record with its message
\* alone, while the messages of the sound record of the directory are all inside
\* the retention window: the file it found was missing or invalid
C17_Witness ==
    \E p \in Procs :
        /\ pc[p] = "written"
        /\ arrivals[pconv[p]] = <<pmsg[p]>>
        /\ files[FileOf(pconv[p])] = Record(pconv[p], <<pmsg[p]>>)
        /\ InWindow(MA) /\ InWindow(MB)

\* no message of the list sorts after the one before it
Descending(list) ==
    \A i \in 1..Len(list) - 1 :
        ~StrGt(list[i + 1].createdDateTime, list[i].createdDateTime)

OptsSorted ==
    {NoOpts, Opts(Some(1), Some(<<"1">>), None, None),
     Opts(Some(2), None, None, Some(T1)), Opts(None, None, Some(T4), None)}

\* C18: sortedness. In every state of a conversation that started empty and that
\* only appends have changed (two callers, messages in any order of arrival,
\* duplicates, failed writes), the persisted list is in non-decreasing
\* createdDateTime order, and every page that read returns is in non-increasing
\* createdDateTime order.
C18_Sortedness ==
    \A c \in Convs :
        /\ Ascending(Stored(c))
        /\ \A opts \in OptsSorted :
              LET r == read(Some(c), opts)
              IN  ~r.threw /\ Descending(r.messages)

\* two messages that arrived in descending order are both stored, in ascending
\* order, and read returns them newest first
C18_Witness ==
    \E c \in Convs :
        LET a == arrivals[c]
        IN  /\ Len(a) >= 2
            /\ StrLt(a[2].createdDateTime, a[1].createdDateTime)
            /\ Stored(c) = <<a[2], a[1]>>
            /\ read(Some(c), NoOpts).messages = <<a[1], a[2]>>

\* C19: no message is skipped. When a traversal with a fixed limit, each read with
\* the nextCursor of the one before, has ended while appends to the conversation
\* went on between its reads, every message that was stored at each of its reads
\* is in one of its pages.
C19_NoSkip ==
    trav.state = "done" => \A m \in trav.common : Occurs(m, trav.pages)

\* a traversal of three reads has ended, an append has stored a message between
\* its reads, a message was returned twice and every message stored throughout
\* is in its pages
C19_Witness ==
    /\ trav.state = "done"
    /\ trav.reads >= 3
    /\ Cardinality(trav.common) >= 2
    /\ \E i, j \in 1..Len(trav.pages) : i # j /\ trav.pages[i] = trav.pages[j]
    /\ \A m \in trav.common : Occurs(m, trav.pages)

====
